---------------------------- MODULE Spec2Model ----------------------------
(***************************************************************************)
(* Model of the 'rpmdeps' inspection of rpminspect                         *)
(* (lib/inspect_rpmdeps.c).  A build is a list of peers (subpackages);     *)
(* every peer carries its after-build dependency rules and, when a before  *)
(* build exists, its before-build rules with the peer links between them.  *)
(* inspect_rpmdeps() walks the peers three times and adds results.         *)
(*                                                                         *)
(* C strings are sequences of one-character strings.  A char * that may be *)
(* NULL is a sequence of length 0 (NULL) or 1 (the string).  A rule        *)
(* pointer that may be NULL is an index into the other list, 0 for NULL.   *)
(***************************************************************************)
EXTENDS Naturals, Sequences, FiniteSets

VARIABLES
    ri,          \* struct rpminspect: peers, rebase flag, before/after builds
    providers,   \* providers[p][r]: the providers list of after-rule r of peer p
    results,     \* ri->results, the findings in the order add_result() got them
    result,      \* the local 'result' of inspect_rpmdeps()
    params,      \* the local 'params' of inspect_rpmdeps()
    rets,        \* rets[p]: what the three checks returned for peer p
    pc,          \* the loop inspect_rpmdeps() is in
    cur          \* index of the peer the loop is at

vars == <<ri, providers, results, result, params, rets, pc, cur>>

-----------------------------------------------------------------------------
(* Bounds of the model *)

\* longest rule list of one peer (per build, before or after)
MaxRules == 2

\* longest version string of the placeholder scenarios
MaxVerLen == 3

-----------------------------------------------------------------------------
(* C strings *)

NULL == <<>>

Str(s) == <<s>>

\* strcmp(a, b) == 0
StrEq(a, b) == a = b

\* strstr(haystack, needle): position of the first occurrence, 0 for NULL
strstr(haystack, needle) ==
    LET hits == {i \in 1..(Len(haystack) + 1 - Len(needle)) :
                    SubSeq(haystack, i, i + Len(needle) - 1) = needle}
    IN  IF hits = {} THEN 0
        ELSE CHOOSE i \in hits : \A j \in hits : i <= j

\* strcspn(s, "("): length of the initial segment holding no '('
strcspn(s, c) ==
    LET hits == {i \in 1..Len(s) : s[i] = c}
    IN  IF hits = {} THEN Len(s)
        ELSE (CHOOSE i \in hits : \A j \in hits : i <= j) - 1

\* s[strcspn(s, "(")] = '\0'
TrimAtParen(s) == SubSeq(s, 1, strcspn(s, "("))

\* strprefix(s, prefix) of lib/strfuncs.c
strprefix(s, prefix) ==
    /\ Len(prefix) <= Len(s)
    /\ \A i \in 1..Len(prefix) : s[i] = prefix[i]

\* strsuffix(s, suffix) of lib/strfuncs.c
strsuffix(s, suffix) ==
    /\ Len(suffix) <= Len(s)
    /\ \A i \in 1..Len(suffix) : s[Len(s) - Len(suffix) + i] = suffix[i]

Digit(d) ==
    CASE d = 0 -> "0" [] d = 1 -> "1" [] d = 2 -> "2" [] d = 3 -> "3"
      [] d = 4 -> "4" [] d = 5 -> "5" [] d = 6 -> "6" [] d = 7 -> "7"
      [] d = 8 -> "8" [] d = 9 -> "9"

\* printf("%ju", n)
RECURSIVE FmtJu(_)
FmtJu(n) == IF n < 10 THEN <<Digit(n)>> ELSE FmtJu(n \div 10) \o <<Digit(n % 10)>>

\* xasprintf("%s-%s", version, release)
FmtVR(version, release) == version \o <<"-">> \o release

\* xasprintf("%ju:%s-%s", epoch, version, release)
FmtEVR(epoch, version, release) == FmtJu(epoch) \o <<":">> \o FmtVR(version, release)

\* xasprintf("%ju:", epoch)
FmtEpochPrefix(epoch) == FmtJu(epoch) \o <<":">>

SHARED_LIB_PREFIX == <<"l", "i", "b">>

SRPM_ARCH_NAME == <<"s", "r", "c">>

-----------------------------------------------------------------------------
(* Headers and lists *)

\* headerIsSource(h)
headerIsSource(h) == h.source

\* get_rpm_header_arch(h): "src" for a source package, else RPMTAG_ARCH
get_rpm_header_arch(h) == IF headerIsSource(h) THEN SRPM_ARCH_NAME ELSE h.arch

\* is_rebase(ri)
is_rebase(r) == r.rebase

\* list_add(list, s): a new entry at the tail of the list
list_add(list, s) == Append(list, s)

\* list_len(list)
list_len(list) == Len(list)

\* deprules_match(a, b): same type, requirement, operator and version
deprules_match(a, b) ==
    /\ a.type = b.type
    /\ a.requirement = b.requirement
    /\ a.operator = b.operator
    /\ a.version = b.version

\* init_result_params() followed by the fields a caller sets.  msg is the
\* leading word of the message ("NULL" for none), peer and rule say which
\* rule of which peer the message is about, file is the provider named by
\* a missing explicit Requires, multiples the list of a multiple providers
\* message, expected is set when "; this is expected" was appended
Params(severity, waiverauth, remedy, verb, msg, peer, rule) ==
    [severity |-> severity, waiverauth |-> waiverauth, remedy |-> remedy,
     verb |-> verb, msg |-> msg, peer |-> peer, rule |-> rule,
     file |-> NULL, multiples |-> NULL, expected |-> FALSE]


-----------------------------------------------------------------------------
(* have_unexpanded_macros() *)

\* lines 63-76: does this entry's version hold an unexpanded macro?
MacroReported(entry) ==
    IF entry.version = NULL THEN FALSE
    ELSE LET version == entry.version[1]
             near == strstr(version, <<"%", "{">>)
             far  == IF near # 0 THEN strstr(version, <<"}">>) ELSE near
         IN  near # 0 /\ far # 0

RECURSIVE MacroLoop(_, _, _, _)
MacroLoop(p, deprules, i, acc) ==
    IF i > Len(deprules) THEN acc
    ELSE IF MacroReported(deprules[i])
         THEN MacroLoop(p, deprules, i + 1,
                  [result |-> FALSE,
                   added  |-> Append(acc.added,
                       Params("RESULT_BAD", "WAIVABLE_BY_ANYONE",
                              "REMEDY_RPMDEPS_MACROS", "VERB_FAILED",
                              "Invalid", p, i))])
         ELSE MacroLoop(p, deprules, i + 1, acc)

have_unexpanded_macros(p, deprules) ==
    MacroLoop(p, deprules, 1, [result |-> TRUE, added |-> <<>>])

-----------------------------------------------------------------------------
(* check_explicit_lib_deps() *)

\* lines 142 and 164: a rule of the given type whose name starts with "lib"
IsLibRule(rule, type) ==
    rule.type = type /\ strprefix(rule.requirement, SHARED_LIB_PREFIX)

\* ProvidesMatches without the comparison of the trimmed subjects
ProvidesMatches_ExactOnly(req, prov) ==
    StrEq(req.requirement, prov.requirement)

\* lines 171-193: the Requires matches the Provides, as written or with the
\* "(x86-64)"-like suffix of both trimmed
ProvidesMatches(req, prov) ==
    IF StrEq(req.requirement, prov.requirement) THEN TRUE
    ELSE IF strstr(req.requirement, <<"(">>) # 0 \/ strstr(prov.requirement, <<"(">>) # 0
         THEN StrEq(TrimAtParen(req.requirement), TrimAtParen(prov.requirement))
         ELSE FALSE

\* ProvLoop that passes over every rule of the peer of the Requires itself
RECURSIVE ProvLoop_SkipSelf(_, _, _, _, _, _)
ProvLoop_SkipSelf(peers, p, r, q, k, acc) ==
    LET deps == peers[q].after_deprules
    IN  IF k > Len(deps) THEN acc
        ELSE IF p = q THEN ProvLoop_SkipSelf(peers, p, r, q, k + 1, acc)
        ELSE IF ~IsLibRule(deps[k], "TYPE_PROVIDES")
             THEN ProvLoop_SkipSelf(peers, p, r, q, k + 1, acc)
        ELSE IF ProvidesMatches(peers[p].after_deprules[r], deps[k])
             THEN ProvLoop_SkipSelf(peers, p, r, q, k + 1,
                      [found |-> TRUE, potential_prov |-> q,
                       providers |-> list_add(acc.providers, peers[q].name)])
        ELSE ProvLoop_SkipSelf(peers, p, r, q, k + 1, acc)

\* lines 157-198: the loop over one peer's rules; acc.providers is
\* req->providers, acc.found the local 'found'
RECURSIVE ProvLoop(_, _, _, _, _, _)
ProvLoop(peers, p, r, q, k, acc) ==
    LET deps == peers[q].after_deprules
    IN  IF k > Len(deps) THEN acc
        ELSE IF p = q /\ r = k THEN ProvLoop(peers, p, r, q, k + 1, acc)
        ELSE IF ~IsLibRule(deps[k], "TYPE_PROVIDES")
             THEN ProvLoop(peers, p, r, q, k + 1, acc)
        ELSE IF ProvidesMatches(peers[p].after_deprules[r], deps[k])
             THEN ProvLoop(peers, p, r, q, k + 1,
                      [found |-> TRUE, potential_prov |-> q,
                       providers |-> list_add(acc.providers, peers[q].name)])
        ELSE ProvLoop(peers, p, r, q, k + 1, acc)

\* lines 150-204: the loop over the peers, left at the first peer that
\* provides; potential_prov is a peer index, 0 for NULL
RECURSIVE PeerLoop(_, _, _, _, _)
PeerLoop(peers, p, r, q, acc) ==
    IF q > Len(peers) THEN acc
    ELSE IF Len(peers[q].after_deprules) = 0
         THEN PeerLoop(peers, p, r, q + 1, acc)
    ELSE LET after == ProvLoop(peers, p, r, q, 1, acc)
         IN  IF after.found THEN after
             ELSE PeerLoop(peers, p, r, q + 1, after)

\* lines 218-222: the version-release or epoch:version-release string
ExplicitVersion(h) ==
    IF h.epoch > 0 THEN FmtEVR(h.epoch, h.version, h.release)
    ELSE FmtVR(h.version, h.release)

\* HasExplicitRequires without the test of the operator
HasExplicitRequires_AnyOperator(after_deps, prov) ==
    \E v \in 1..Len(after_deps) :
        LET verify == after_deps[v]
        IN  /\ ~((verify.type # "TYPE_REQUIRES")
                 \/ strprefix(verify.requirement, SHARED_LIB_PREFIX))
            /\ StrEq(verify.requirement, prov.name)
            /\ verify.version = Str(ExplicitVersion(prov))

\* lines 226-236: an explicit Requires of potential_prov among after_deps
HasExplicitRequires(after_deps, prov) ==
    \E v \in 1..Len(after_deps) :
        LET verify == after_deps[v]
        IN  /\ ~((verify.type # "TYPE_REQUIRES")
                 \/ strprefix(verify.requirement, SHARED_LIB_PREFIX))
            /\ StrEq(verify.requirement, prov.name)
            /\ verify.operator = "OP_EQUAL"
            /\ verify.version = Str(ExplicitVersion(prov))

\* lines 242-268: the missing explicit package requires result
MissingExplicit(p, r, prov) ==
    [Params("RESULT_VERIFY", "WAIVABLE_BY_ANYONE",
            IF prov.epoch > 0 THEN "REMEDY_RPMDEPS_EXPLICIT_EPOCH"
            ELSE "REMEDY_RPMDEPS_EXPLICIT",
            "VERB_FAILED", "MissingExplicit", p, r)
        EXCEPT !.file = Str(prov.name)]

\* lines 271-290: the multiple providers result
MultipleProviders(p, r, plist) ==
    [Params("RESULT_VERIFY", "WAIVABLE_BY_ANYONE", "REMEDY_RPMDEPS_MULTIPLE",
            "VERB_FAILED", "Multiple", p, r)
        EXCEPT !.multiples = plist]

\* lines 140-291: the loop over the rules of peer p; acc holds result, the
\* results added and the providers lists of the rules of peer p
RECURSIVE LibLoop(_, _, _, _)
LibLoop(peers, p, r, acc) ==
    LET after_deps == peers[p].after_deprules
    IN  IF r > Len(after_deps) THEN acc
        ELSE IF ~IsLibRule(after_deps[r], "TYPE_REQUIRES")
             THEN LibLoop(peers, p, r + 1, acc)
        ELSE LET scan == PeerLoop(peers, p, r, 1,
                             [found |-> FALSE, potential_prov |-> 0,
                              providers |-> acc.providers[r]])
                 pp == scan.potential_prov
                 found == IF scan.found /\ pp # 0
                          THEN HasExplicitRequires(after_deps, peers[pp])
                          ELSE scan.found
                 missing == ~found /\ pp # 0
                 multiple == list_len(scan.providers) > 1
                 a1 == IF missing
                       THEN Append(acc.added, MissingExplicit(p, r, peers[pp]))
                       ELSE acc.added
                 a2 == IF multiple
                       THEN Append(a1, MultipleProviders(p, r, scan.providers))
                       ELSE a1
             IN  LibLoop(peers, p, r + 1,
                     [result |-> acc.result /\ ~missing /\ ~multiple,
                      added |-> a2,
                      providers |-> [acc.providers EXCEPT ![r] = scan.providers]])

check_explicit_lib_deps(peers, p, plists) ==
    LibLoop(peers, p, 1, [result |-> TRUE, added |-> <<>>, providers |-> plists])

-----------------------------------------------------------------------------
(* check_explicit_epoch() *)

\* NeedsEpoch with the version compared to the version-release as a whole
NeedsEpoch_Equal(h, deprule) ==
    IF deprule.version = NULL THEN FALSE
    ELSE /\ StrEq(deprule.version[1], FmtVR(h.version, h.release))
         /\ ~strprefix(deprule.version[1], FmtEpochPrefix(h.epoch))

\* lines 354-358: the rule uses the version-release without the epoch prefix
NeedsEpoch(h, deprule) ==
    IF deprule.version = NULL THEN FALSE
    ELSE /\ strsuffix(deprule.version[1], FmtVR(h.version, h.release))
         /\ ~strprefix(deprule.version[1], FmtEpochPrefix(h.epoch))

\* lines 336-342: the reporting level of the epoch results
EpochSeverity(rebase) == IF rebase THEN "RESULT_INFO" ELSE "RESULT_BAD"

EpochWaiver(rebase) == IF rebase THEN "NOT_WAIVABLE" ELSE "WAIVABLE_BY_ANYONE"

RECURSIVE EpochLoop(_, _, _, _, _)
EpochLoop(rebase, h, p, i, acc) ==
    IF i > Len(h.after_deprules) THEN acc
    ELSE IF NeedsEpoch(h, h.after_deprules[i])
         THEN EpochLoop(rebase, h, p, i + 1,
                  [result |-> FALSE,
                   added  |-> Append(acc.added,
                       Params(EpochSeverity(rebase), EpochWaiver(rebase),
                              "REMEDY_RPMDEPS_EPOCH", "VERB_FAILED",
                              "MissingEpoch", p, i))])
         ELSE EpochLoop(rebase, h, p, i + 1, acc)

check_explicit_epoch(r, p) ==
    LET h == r.peers[p]
    IN  IF Len(h.after_deprules) = 0 THEN [result |-> TRUE, added |-> <<>>]
        ELSE IF h.epoch = 0 THEN [result |-> TRUE, added |-> <<>>]
        ELSE EpochLoop(is_rebase(r), h, p, 1, [result |-> TRUE, added |-> <<>>])

-----------------------------------------------------------------------------
(* expected_deprule_change() *)

\* lines 426-446: the first peer that is no source package and has the arch
\* of h and the name req; 0 when there is none
RECURSIVE FindSubpackage(_, _, _, _)
FindSubpackage(peers, arch, req, q) ==
    IF q > Len(peers) THEN 0
    ELSE IF headerIsSource(peers[q]) THEN FindSubpackage(peers, arch, req, q + 1)
    ELSE IF StrEq(arch, get_rpm_header_arch(peers[q])) /\ StrEq(peers[q].name, req)
         THEN q
    ELSE FindSubpackage(peers, arch, req, q + 1)

\* expected_deprule_change without the test of the operator
expected_deprule_change_AnyOperator(rebase, deprule, h, peers) ==
    IF headerIsSource(h) THEN TRUE
    ELSE IF rebase THEN TRUE
    ELSE LET arch == get_rpm_header_arch(h)
             req == IF strstr(deprule.requirement, <<"(">>) # 0
                    THEN TrimAtParen(deprule.requirement)
                    ELSE deprule.requirement
             q == FindSubpackage(peers, arch, req, 1)
         IN  IF q = 0 THEN FALSE
             ELSE LET vr == FmtVR(peers[q].version, peers[q].release)
                      evr == FmtEVR(peers[q].epoch, peers[q].version, peers[q].release)
                  IN  IF peers[q].epoch > 0
                      THEN deprule.version = Str(evr)
                      ELSE deprule.version = Str(vr)

expected_deprule_change(rebase, deprule, h, peers) ==
    IF headerIsSource(h) THEN TRUE
    ELSE IF rebase THEN TRUE
    ELSE LET arch == get_rpm_header_arch(h)
             req == IF strstr(deprule.requirement, <<"(">>) # 0
                    THEN TrimAtParen(deprule.requirement)
                    ELSE deprule.requirement
             q == FindSubpackage(peers, arch, req, 1)
         IN  IF q = 0 THEN FALSE
             ELSE LET vr == FmtVR(peers[q].version, peers[q].release)
                      evr == FmtEVR(peers[q].epoch, peers[q].version, peers[q].release)
                  IN  IF deprule.operator = "OP_EQUAL"
                      THEN IF peers[q].epoch > 0
                           THEN deprule.version = Str(evr)
                           ELSE deprule.version = Str(vr)
                      ELSE FALSE

-----------------------------------------------------------------------------
(* inspect_rpmdeps() *)

\* lines 587-593 and 680-686: the reporting level by rebase
ReportSeverity(rebase) == IF rebase THEN "RESULT_INFO" ELSE "RESULT_VERIFY"

ReportWaiver(rebase) == IF rebase THEN "NOT_WAIVABLE" ELSE "WAIVABLE_BY_ANYONE"

\* AfterReport with a retained rule reported at the level of the build
AfterReport_RetainedAtLevel(r, p, i, params0) ==
    LET h == r.peers[p]
        deprule == h.after_deprules[i]
        level == [params0 EXCEPT !.waiverauth = ReportWaiver(r.rebase),
                                 !.severity = ReportSeverity(r.rebase),
                                 !.peer = p, !.rule = i, !.expected = FALSE]
    IN  IF deprule.peer_deprule = 0
        THEN [level EXCEPT !.msg = "Gained", !.remedy = "REMEDY_RPMDEPS_GAINED",
                           !.verb = "VERB_ADDED"]
        ELSE IF deprules_match(deprule, h.before_deprules[deprule.peer_deprule])
        THEN [level EXCEPT !.msg = "Retained", !.remedy = "NULL",
                           !.verb = "VERB_OK"]
        ELSE IF expected_deprule_change(r.rebase, deprule, h, r.peers)
        THEN [level EXCEPT !.msg = "Changed", !.remedy = "REMEDY_RPMDEPS_CHANGED",
                           !.verb = "VERB_CHANGED", !.severity = "RESULT_INFO",
                           !.waiverauth = "NOT_WAIVABLE", !.expected = TRUE]
        ELSE [level EXCEPT !.msg = "Changed", !.remedy = "REMEDY_RPMDEPS_CHANGED",
                           !.verb = "VERB_CHANGED"]

\* AfterReport with the reporting level set once before the loop and not
\* in every iteration
AfterReport_NoReset(r, p, i, params0) ==
    LET h == r.peers[p]
        deprule == h.after_deprules[i]
        level == IF params0.msg \in {"Gained", "Retained", "Changed", "Lost"}
                 THEN [params0 EXCEPT !.peer = p, !.rule = i, !.expected = FALSE]
                 ELSE [params0 EXCEPT !.waiverauth = ReportWaiver(r.rebase),
                                      !.severity = ReportSeverity(r.rebase),
                                      !.peer = p, !.rule = i, !.expected = FALSE]
    IN  IF deprule.peer_deprule = 0
        THEN [level EXCEPT !.msg = "Gained", !.remedy = "REMEDY_RPMDEPS_GAINED",
                           !.verb = "VERB_ADDED"]
        ELSE IF deprules_match(deprule, h.before_deprules[deprule.peer_deprule])
        THEN [level EXCEPT !.msg = "Retained", !.remedy = "NULL",
                           !.verb = "VERB_OK", !.waiverauth = "NOT_WAIVABLE",
                           !.severity = "RESULT_INFO"]
        ELSE IF expected_deprule_change(r.rebase, deprule, h, r.peers)
        THEN [level EXCEPT !.msg = "Changed", !.remedy = "REMEDY_RPMDEPS_CHANGED",
                           !.verb = "VERB_CHANGED", !.severity = "RESULT_INFO",
                           !.waiverauth = "NOT_WAIVABLE", !.expected = TRUE]
        ELSE [level EXCEPT !.msg = "Changed", !.remedy = "REMEDY_RPMDEPS_CHANGED",
                           !.verb = "VERB_CHANGED"]

\* lines 586-646: the params add_result() gets for after-rule i of peer p,
\* from the params the iteration starts with
AfterReport(r, p, i, params0) ==
    LET h == r.peers[p]
        deprule == h.after_deprules[i]
        level == [params0 EXCEPT !.waiverauth = ReportWaiver(r.rebase),
                                 !.severity = ReportSeverity(r.rebase),
                                 !.peer = p, !.rule = i, !.expected = FALSE]
    IN  IF deprule.peer_deprule = 0
        THEN [level EXCEPT !.msg = "Gained", !.remedy = "REMEDY_RPMDEPS_GAINED",
                           !.verb = "VERB_ADDED"]
        ELSE IF deprules_match(deprule, h.before_deprules[deprule.peer_deprule])
        THEN [level EXCEPT !.msg = "Retained", !.remedy = "NULL",
                           !.verb = "VERB_OK", !.waiverauth = "NOT_WAIVABLE",
                           !.severity = "RESULT_INFO"]
        ELSE IF expected_deprule_change(r.rebase, deprule, h, r.peers)
        THEN [level EXCEPT !.msg = "Changed", !.remedy = "REMEDY_RPMDEPS_CHANGED",
                           !.verb = "VERB_CHANGED", !.severity = "RESULT_INFO",
                           !.waiverauth = "NOT_WAIVABLE", !.expected = TRUE]
        ELSE [level EXCEPT !.msg = "Changed", !.remedy = "REMEDY_RPMDEPS_CHANGED",
                           !.verb = "VERB_CHANGED"]

\* lines 585-658: the loop over the after-rules of peer p
RECURSIVE AfterLoop(_, _, _, _)
AfterLoop(r, p, i, acc) ==
    IF i > Len(r.peers[p].after_deprules) THEN acc
    ELSE LET reported == AfterReport(r, p, i, acc.params)
         IN  AfterLoop(r, p, i + 1,
                 [result |-> IF reported.severity = "RESULT_VERIFY" THEN FALSE
                             ELSE acc.result,
                  added |-> Append(acc.added, reported),
                  params |-> reported])

\* lines 663-686: the params add_result() gets for a before-rule without a
\* peer
LostReport(r, p, i, params0) ==
    [params0 EXCEPT !.msg = "Lost", !.remedy = "REMEDY_RPMDEPS_LOST",
                    !.verb = "VERB_REMOVED", !.peer = p, !.rule = i,
                    !.expected = FALSE,
                    !.waiverauth = ReportWaiver(r.rebase),
                    !.severity = ReportSeverity(r.rebase)]

\* lines 661-698: the loop over the before-rules of peer p
RECURSIVE BeforeLoop(_, _, _, _)
BeforeLoop(r, p, i, acc) ==
    IF i > Len(r.peers[p].before_deprules) THEN acc
    ELSE IF r.peers[p].before_deprules[i].peer_deprule = 0
         THEN LET reported == LostReport(r, p, i, acc.params)
              IN  BeforeLoop(r, p, i + 1,
                      [result |-> IF reported.severity = "RESULT_VERIFY" THEN FALSE
                                  ELSE acc.result,
                       added |-> Append(acc.added, reported),
                       params |-> reported])
         ELSE BeforeLoop(r, p, i + 1, acc)

\* init_result_params(): lines 500 and 704
InitParams == Params("RESULT_OK", "NOT_WAIVABLE", "NULL", "NULL", "NULL", 0, 0)

\* lines 702-710: the result added when everything was fine
OkReport ==
    [InitParams EXCEPT !.severity = "RESULT_OK", !.waiverauth = "NOT_WAIVABLE",
                       !.verb = "VERB_OK"]

-----------------------------------------------------------------------------
(* The builds inspect_rpmdeps() is run on.                                  *)
(*                                                                         *)
(* Every peer has an after header and rule lists that are set (possibly    *)
(* empty); a rule with an operator has a version, as the rules rpm gives   *)
(* have, so strcmp() at lines 232, 463 and 465 never gets NULL; a build    *)
(* has at most one subpackage of a name and arch; a rebase has a before    *)
(* build.  The search for the spec file name (lines 511-534) only sets the *)
(* default of params.file and is left out.                                 *)

SeqsUpTo(S, n) == UNION {[1..k -> S] : k \in 0..n}

Rule(type, requirement, operator, version) ==
    [type |-> type, requirement |-> requirement, operator |-> operator,
     version |-> version, peer_deprule |-> 0]

Hdr(name, arch, source, epoch) ==
    [name |-> name, arch |-> arch, source |-> source, epoch |-> epoch,
     version |-> <<"2", ".", "0">>, release |-> <<"1">>]

\* A rule list is given as a list of items: a rule only the after build
\* has, a rule only the before build has, or a linked pair of rules.
Gained(a) == [kind |-> "gained", a |-> a, b |-> a]

Lost(b) == [kind |-> "lost", a |-> b, b |-> b]

Pair(b, a) == [kind |-> "pair", a |-> a, b |-> b]

\* find_deprule_peers(): the rule lists of the items, peered up
RECURSIVE Link(_, _, _)
Link(items, k, acc) ==
    IF k > Len(items) THEN acc
    ELSE LET it == items[k]
             na == Len(acc.after_deprules) + 1
             nb == Len(acc.before_deprules) + 1
         IN  Link(items, k + 1,
                 CASE it.kind = "gained" ->
                        [acc EXCEPT !.after_deprules = Append(@, it.a)]
                   [] it.kind = "lost" ->
                        [acc EXCEPT !.before_deprules = Append(@, it.b)]
                   [] it.kind = "pair" ->
                        [after_deprules |-> Append(acc.after_deprules,
                                               [it.a EXCEPT !.peer_deprule = nb]),
                         before_deprules |-> Append(acc.before_deprules,
                                               [it.b EXCEPT !.peer_deprule = na])])

\* a peer: the after header and the rule lists gather_deprules() and
\* find_deprule_peers() set
Peer(h, items) ==
    LET lists == Link(items, 1, [after_deprules |-> <<>>, before_deprules |-> <<>>])
    IN  [name |-> h.name, arch |-> h.arch, source |-> h.source, epoch |-> h.epoch,
         version |-> h.version, release |-> h.release,
         after_deprules |-> lists.after_deprules,
         before_deprules |-> lists.before_deprules]

Build(peers, before, rebase) ==
    [peers |-> peers, before |-> before, after |-> TRUE, rebase |-> rebase]

\* every rule of an after build without a before build
AllGained(rules) == [k \in 1..Len(rules) |-> Gained(rules[k])]

\* every rule kept as it was
AllRetained(rules) == [k \in 1..Len(rules) |-> Pair(rules[k], rules[k])]

NameA == <<"A">>

NameB == <<"B">>

NameLibC == <<"l", "i", "b", "C">>

NameS == <<"S">>

NameT == <<"T">>

NameU == <<"U">>

ArchX == <<"x">>

ArchY == <<"y">>

LibF == <<"l", "i", "b", "f">>

LibFIsa == <<"l", "i", "b", "f", "(", "x", ")">>

LibG == <<"l", "i", "b", "g">>

\* version-release of every header of the model, and with epochs
VR == <<"2", ".", "0", "-", "1">>

EVR(epoch) == FmtJu(epoch) \o <<":">> \o VR

(* Builds for the scan for unexpanded macros *)

MacroAlphabet == {"%", "{", "}", "1"}

VersionRule(v) == Rule("TYPE_PROVIDES", NameA, "OP_EQUAL", Str(v))

PlainRule == Rule("TYPE_REQUIRES", NameB, "OP_NULL", NULL)

MacroFill == SeqsUpTo({PlainRule, VersionRule(<<"%", "{", "1", "}">>)}, MaxRules - 1)

MacroFills ==
    {fg \in MacroFill \X MacroFill : Len(fg[1]) + Len(fg[2]) <= MaxRules - 1}

MacroOthers ==
    {<<>>, <<Peer(Hdr(NameB, ArchX, FALSE, 0), AllGained(<<PlainRule>>))>>,
     <<Peer(Hdr(NameB, ArchX, FALSE, 0), AllGained(<<VersionRule(<<"%", "{", "}">>)>>))>>}

MacroBuild(v, fg, fb) ==
    Build(fb[1]
            \o <<Peer(Hdr(NameA, ArchX, FALSE, 0),
                      AllGained(fg[1] \o <<VersionRule(v)>> \o fg[2]))>>
            \o fb[2],
          FALSE, FALSE)

(* Builds for the explicit Requires of shared library dependencies *)

LibRequirerPool ==
    {Rule("TYPE_REQUIRES", LibF, "OP_NULL", NULL),
     Rule("TYPE_REQUIRES", LibFIsa, "OP_NULL", NULL),
     Rule("TYPE_PROVIDES", LibF, "OP_NULL", NULL),
     Rule("TYPE_REQUIRES", NameB, "OP_EQUAL", Str(VR)),
     Rule("TYPE_REQUIRES", NameB, "OP_EQUAL", Str(EVR(1))),
     Rule("TYPE_REQUIRES", NameB, "OP_GREATEREQUAL", Str(VR)),
     Rule("TYPE_PROVIDES", NameB, "OP_EQUAL", Str(VR)),
     Rule("TYPE_REQUIRES", NameLibC, "OP_EQUAL", Str(VR))}

LibProviderLists ==
    {<<>>,
     <<Rule("TYPE_PROVIDES", LibF, "OP_NULL", NULL)>>,
     <<Rule("TYPE_PROVIDES", LibFIsa, "OP_NULL", NULL)>>,
     <<Rule("TYPE_PROVIDES", LibF, "OP_NULL", NULL),
       Rule("TYPE_PROVIDES", LibFIsa, "OP_NULL", NULL)>>,
     <<Rule("TYPE_PROVIDES", LibG, "OP_NULL", NULL)>>}

LibPeersB ==
    {Peer(Hdr(NameB, ArchX, FALSE, 0), AllGained(l)) : l \in LibProviderLists}
    \cup {Peer(Hdr(NameB, ArchX, FALSE, 1), AllGained(l)) :
             l \in {m \in LibProviderLists : Len(m) = 1 /\ m[1].requirement # LibG}}

LibPeersC ==
    {Peer(Hdr(NameLibC, ArchX, FALSE, 0), AllGained(l)) :
        l \in {m \in LibProviderLists : Len(m) = 0 \/ (Len(m) = 1 /\ m[1].requirement # LibG)}}

Permutations3 ==
    {f \in [1..3 -> 1..3] : \A i, j \in 1..3 : i # j => f[i] # f[j]}

LibBuild(l, b, c, f) ==
    Build([k \in 1..3 |->
              <<Peer(Hdr(NameA, ArchX, FALSE, 0), AllGained(l)), b, c>>[f[k]]],
          FALSE, FALSE)

(* Builds with a subpackage that provides the library it requires *)

SelfPool ==
    {Rule("TYPE_REQUIRES", LibF, "OP_NULL", NULL),
     Rule("TYPE_PROVIDES", LibF, "OP_NULL", NULL),
     Rule("TYPE_PROVIDES", LibFIsa, "OP_NULL", NULL),
     Rule("TYPE_REQUIRES", NameA, "OP_EQUAL", Str(VR)),
     Rule("TYPE_REQUIRES", NameA, "OP_EQUAL", Str(EVR(1)))}

\* the rules of the other subpackage, when there is one: it provides the
\* library, before (1) or after (2), or provides and requires a library of
\* its own, after (3)
SelfOthers ==
    <<<<Rule("TYPE_PROVIDES", LibF, "OP_NULL", NULL)>>,
      <<Rule("TYPE_PROVIDES", LibF, "OP_NULL", NULL)>>,
      <<Rule("TYPE_REQUIRES", LibG, "OP_NULL", NULL),
        Rule("TYPE_PROVIDES", LibG, "OP_NULL", NULL)>>>>

SelfBuild(l, e, o) ==
    LET self == <<Peer(Hdr(NameA, ArchX, FALSE, e), AllGained(l))>>
        other == <<Peer(Hdr(NameB, ArchX, FALSE, 0), AllGained(SelfOthers[o]))>>
    IN  Build(IF o = 0 THEN self
              ELSE IF o = 1 THEN other \o self
              ELSE self \o other,
              FALSE, FALSE)

(* Builds for the epoch prefix of the version-release *)

EpochRules ==
    {Rule("TYPE_REQUIRES", NameB, "OP_NULL", NULL),
     Rule("TYPE_PROVIDES", NameA, "OP_EQUAL", Str(VR)),
     Rule("TYPE_PROVIDES", NameA, "OP_EQUAL", Str(EVR(2))),
     Rule("TYPE_PROVIDES", NameA, "OP_EQUAL", Str(EVR(12))),
     Rule("TYPE_PROVIDES", NameA, "OP_EQUAL", Str(VR \o <<"0">>)),
     Rule("TYPE_PROVIDES", NameA, "OP_EQUAL", Str(<<"1">> \o VR)),
     Rule("TYPE_PROVIDES", NameA, "OP_EQUAL", Str(<<"%", "{", "}">>))}

EpochItems(rules, before) == IF before THEN AllRetained(rules) ELSE AllGained(rules)

EpochBuild(l, e, two, br) ==
    Build(<<Peer(Hdr(NameA, ArchX, FALSE, e), EpochItems(l, br[1]))>> \o
            (IF two
             THEN <<Peer(Hdr(NameB, ArchX, FALSE, 2),
                         EpochItems(<<Rule("TYPE_PROVIDES", NameB, "OP_EQUAL", Str(VR))>>,
                                    br[1]))>>
             ELSE <<>>),
          br[1], br[2])

(* Builds for the report of the changes between the before and after build *)

ChangedVersions ==
    {<<"OP_EQUAL", Str(VR)>>, <<"OP_EQUAL", Str(EVR(1))>>,
     <<"OP_GREATEREQUAL", Str(EVR(1))>>}

OldRule(name) == Rule("TYPE_REQUIRES", name, "OP_EQUAL", Str(<<"1", "-", "1">>))

DiffItems ==
    {Pair(OldRule(n), Rule("TYPE_REQUIRES", n, ov[1], ov[2])) :
        n \in {NameT, NameT \o <<"(", "x", ")">>, NameU}, ov \in ChangedVersions}
    \cup {Gained(OldRule(NameU)), Lost(OldRule(NameU)),
          Pair(OldRule(NameT), OldRule(NameT))}

SiblingRule(e) ==
    Rule("TYPE_PROVIDES", NameT, "OP_EQUAL", Str(IF e > 0 THEN EVR(e) ELSE VR))

Sibling(arch, source, e) ==
    Peer(Hdr(NameT, arch, source, e), AllRetained(<<SiblingRule(e)>>))

DiffSiblings ==
    {<<Sibling(ArchX, FALSE, 0)>>, <<Sibling(ArchX, FALSE, 1)>>,
     <<Sibling(ArchY, FALSE, 1)>>, <<Sibling(SRPM_ARCH_NAME, TRUE, 1)>>,
     <<Sibling(ArchY, FALSE, 0), Sibling(ArchX, FALSE, 1)>>}

DiffBuild(l, t, src, rebase) ==
    Build(<<Peer(Hdr(NameS, IF src THEN SRPM_ARCH_NAME ELSE ArchX, src, 0), l)>> \o t,
          TRUE, rebase)

\* NextPc with the report entered without a before build
NextPc_NoBefore(r, at, p) ==
    IF p < Len(r.peers) THEN at
    ELSE IF at = "first" THEN "second"
    ELSE IF at = "second" THEN "report"
    ELSE "finish"

\* the peer loop of the loop at pc moves to the next peer, or the next
\* loop starts: lines 539, 565, 578-579, 702
NextPc(r, at, p) ==
    IF p < Len(r.peers) THEN at
    ELSE IF at = "first" THEN "second"
    ELSE IF at = "second" /\ r.before /\ r.after THEN "report"
    ELSE "finish"

NextCur(r, p) == IF p < Len(r.peers) THEN p + 1 ELSE 1

\* lines 539-560: one peer of the first pass
FirstPass ==
    /\ pc = "first"
    /\ LET m == have_unexpanded_macros(cur, ri.peers[cur].after_deprules)
       IN  /\ results' = results \o m.added
           /\ result' = IF ~m.result THEN FALSE ELSE result
           /\ rets' = [rets EXCEPT ![cur].macros = <<m.result>>]
    /\ pc' = NextPc(ri, "first", cur)
    /\ cur' = NextCur(ri, cur)
    /\ UNCHANGED <<ri, providers, params>>

\* lines 565-575: one peer of the second pass
SecondPass ==
    /\ pc = "second"
    /\ LET l == check_explicit_lib_deps(ri.peers, cur, providers[cur])
           e == check_explicit_epoch(ri, cur)
       IN  /\ results' = results \o l.added \o e.added
           /\ result' = IF ~l.result \/ ~e.result THEN FALSE ELSE result
           /\ providers' = [providers EXCEPT ![cur] = l.providers]
           /\ rets' = [rets EXCEPT ![cur].lib = <<l.result>>,
                                   ![cur].epoch = <<e.result>>]
    /\ pc' = NextPc(ri, "second", cur)
    /\ cur' = NextCur(ri, cur)
    /\ UNCHANGED <<ri, params>>

\* lines 579-699: one peer of the report of the changes between the builds
Report ==
    /\ pc = "report"
    /\ LET a == AfterLoop(ri, cur, 1,
                    [result |-> result, added |-> <<>>, params |-> params])
           b == BeforeLoop(ri, cur, 1, a)
       IN  /\ results' = results \o b.added
           /\ result' = b.result
           /\ params' = b.params
    /\ pc' = NextPc(ri, "report", cur)
    /\ cur' = NextCur(ri, cur)
    /\ UNCHANGED <<ri, providers, rets>>

\* Finish with the closing result added whatever the result
Finish_Always ==
    /\ pc = "finish"
    /\ results' = Append(results, OkReport)
    /\ params' = OkReport
    /\ pc' = "done"
    /\ UNCHANGED <<ri, providers, result, rets, cur>>

\* lines 702-712: the closing result and the return
Finish ==
    /\ pc = "finish"
    /\ results' = IF result THEN Append(results, OkReport) ELSE results
    /\ params' = IF result THEN OkReport ELSE params
    /\ pc' = "done"
    /\ UNCHANGED <<ri, providers, result, rets, cur>>

Next == FirstPass \/ SecondPass \/ Report \/ Finish

\* the state inspect_rpmdeps() is entered in, for the build b
Start(b) ==
    /\ ri = b
    /\ providers = [p \in 1..Len(ri.peers) |->
                       [r \in 1..Len(ri.peers[p].after_deprules) |-> NULL]]
    /\ results = <<>>
    /\ result = TRUE
    /\ params = InitParams
    /\ rets = [p \in 1..Len(ri.peers) |->
                  [macros |-> NULL, lib |-> NULL, epoch |-> NULL]]
    /\ pc = "first"
    /\ cur = 1

Init ==
    \/ \E v \in SeqsUpTo(MacroAlphabet, MaxVerLen), fg \in MacroFills,
          fb \in {x \in MacroOthers \X MacroOthers : x[1] = <<>> \/ x[2] = <<>>} :
            Start(MacroBuild(v, fg, fb))
    \/ \E l \in SeqsUpTo(LibRequirerPool, MaxRules), b \in LibPeersB,
          c \in LibPeersC, f \in Permutations3 :
            Start(LibBuild(l, b, c, f))
    \/ \E l \in SeqsUpTo(EpochRules, MaxRules), e \in {0, 2, 12}, two \in BOOLEAN,
          br \in {<<FALSE, FALSE>>, <<TRUE, FALSE>>, <<TRUE, TRUE>>} :
            Start(EpochBuild(l, e, two, br))
    \/ \E l \in SeqsUpTo(DiffItems, MaxRules), t \in DiffSiblings,
          src \in BOOLEAN, rebase \in BOOLEAN :
            Start(DiffBuild(l, t, src, rebase))
    \/ \E l \in SeqsUpTo(SelfPool, MaxRules + 1), e \in {0, 1}, o \in 0..3 :
            Start(SelfBuild(l, e, o))

Spec == Init /\ [][Next]_vars

-----------------------------------------------------------------------------
(* What the properties below are stated with *)

Peers == 1..Len(ri.peers)

AfterRules(p) == 1..Len(ri.peers[p].after_deprules)

BeforeRules(p) == 1..Len(ri.peers[p].before_deprules)

Findings == 1..Len(results)

\* the checks of the first and of the second pass have returned for peer p
FirstDone(p) == rets[p].macros # NULL

SecondDone(p) == rets[p].epoch # NULL

\* the changes of peer p have been reported
ReportDone(p) ==
    \/ pc = "report" /\ p < cur
    \/ pc \in {"finish", "done"} /\ ri.before

\* the findings with message m about rule i of peer p
About(m, p, i) ==
    {k \in Findings : results[k].msg = m /\ results[k].peer = p /\ results[k].rule = i}

HasPrefix(s, pre) == Len(pre) <= Len(s) /\ SubSeq(s, 1, Len(pre)) = pre

HasSuffix(s, suf) ==
    Len(suf) <= Len(s) /\ SubSeq(s, Len(s) - Len(suf) + 1, Len(s)) = suf

\* s up to its first "("
BeforeParen(s) ==
    LET n == CHOOSE n \in 0..Len(s) :
                 /\ \A j \in 1..n : s[j] # "("
                 /\ n < Len(s) => s[n + 1] = "("
    IN  SubSeq(s, 1, n)

HasParen(s) == \E j \in 1..Len(s) : s[j] = "("

\* "%{" with a "}" at a later position
OpenThenClose(v) ==
    \E i, j \in 1..Len(v) : i + 1 < j /\ v[i] = "%" /\ v[i + 1] = "{" /\ v[j] = "}"

\* version-release, or epoch:version-release for an epoch above 0
Token(h) ==
    IF h.epoch = 0 THEN h.version \o <<"-">> \o h.release
    ELSE FmtJu(h.epoch) \o <<":">> \o h.version \o <<"-">> \o h.release

IsLibRequires(rule) ==
    rule.type = "TYPE_REQUIRES" /\ HasPrefix(rule.requirement, <<"l", "i", "b">>)

\* a shared library Provides for the shared library Requires req
ProvidesFor(req, prov) ==
    /\ prov.type = "TYPE_PROVIDES"
    /\ HasPrefix(prov.requirement, <<"l", "i", "b">>)
    /\ \/ prov.requirement = req.requirement
       \/ /\ HasParen(prov.requirement) \/ HasParen(req.requirement)
          /\ BeforeParen(prov.requirement) = BeforeParen(req.requirement)

\* the peers that carry a Provides for req
ProvidersOf(req) ==
    {q \in Peers : \E k \in AfterRules(q) : ProvidesFor(req, ri.peers[q].after_deprules[k])}

SameRule(a, b) ==
    <<a.type, a.requirement, a.operator, a.version>>
        = <<b.type, b.requirement, b.operator, b.version>>

-----------------------------------------------------------------------------
(* The scan for unexpanded macros *)

\* C1: once the scan of a subpackage has returned, a rule of it has an
\* 'Invalid' finding of BAD severity if and only if its version is present
\* and holds "%{" with a "}" at a later position, and the scan returned
\* false if and only if there is such a rule.
UnexpandedMacrosFlagged ==
    \A p \in Peers : FirstDone(p) =>
        LET deps == ri.peers[p].after_deprules
            open(i) == deps[i].version # NULL /\ OpenThenClose(deps[i].version[1])
        IN  /\ \A i \in AfterRules(p) :
                   (\E k \in About("Invalid", p, i) :
                        results[k].severity = "RESULT_BAD") <=> open(i)
            /\ rets[p].macros = <<FALSE>> <=> \E i \in AfterRules(p) : open(i)

-----------------------------------------------------------------------------
(* The explicit Requires of shared library dependencies *)

\* C2: once the check of a subpackage has returned, every shared library
\* Requires of it that two distinct subpackages carry a Provides for has a
\* 'Multiple' finding of VERIFY severity that lists both names, and the
\* check returned false.
MultipleProvidersReported ==
    \A p \in Peers : SecondDone(p) =>
        \A r \in AfterRules(p) :
            LET req == ri.peers[p].after_deprules[r]
            IN  IsLibRequires(req) =>
                    \A q1, q2 \in ProvidersOf(req) :
                        ri.peers[q1].name # ri.peers[q2].name =>
                            /\ \E k \in About("Multiple", p, r) :
                                   /\ results[k].severity = "RESULT_VERIFY"
                                   /\ \E x \in 1..Len(results[k].multiples) :
                                          results[k].multiples[x] = ri.peers[q1].name
                                   /\ \E x \in 1..Len(results[k].multiples) :
                                          results[k].multiples[x] = ri.peers[q2].name
                            /\ rets[p].lib = <<FALSE>>

\* C3: when inspect_rpmdeps() returns, it returns true if and only if no
\* finding of VERIFY or BAD severity was added.
VerdictIffNoFailure ==
    pc = "done" =>
        (result <=> ~\E k \in Findings :
                        results[k].severity \in {"RESULT_VERIFY", "RESULT_BAD"})

\* the first peer in the order of the list that carries a Provides for req
Candidate(req) == CHOOSE q \in ProvidersOf(req) : \A x \in ProvidersOf(req) : q <= x

\* subpackage p carries 'Requires: name = token' of peer q, not lib-prefixed
CarriesExplicit(p, q) ==
    \E v \in AfterRules(p) :
        LET rule == ri.peers[p].after_deprules[v]
        IN  /\ rule.type = "TYPE_REQUIRES"
            /\ ~HasPrefix(rule.requirement, <<"l", "i", "b">>)
            /\ rule.requirement = ri.peers[q].name
            /\ rule.operator = "OP_EQUAL"
            /\ rule.version = <<Token(ri.peers[q])>>

\* C4: once the check of subpackage A has returned, a shared library
\* Requires of A with candidate provider B has a 'MissingExplicit' finding
\* (VERIFY, naming B) if and only if A carries no non-lib-prefixed Requires
\* of B's name with operator = and B's version token; with the finding the
\* check returned false, and no such finding names another subpackage.
MissingExplicitIffNotCarried ==
    \A p \in Peers : SecondDone(p) =>
        \A r \in AfterRules(p) :
            LET req == ri.peers[p].after_deprules[r]
            IN  IsLibRequires(req) /\ ProvidersOf(req) # {} =>
                    LET q == Candidate(req)
                        emitted == \E k \in About("MissingExplicit", p, r) :
                                       /\ results[k].file = <<ri.peers[q].name>>
                                       /\ results[k].severity = "RESULT_VERIFY"
                    IN  /\ emitted <=> ~CarriesExplicit(p, q)
                        /\ emitted => rets[p].lib = <<FALSE>>
                        /\ \A k \in About("MissingExplicit", p, r) :
                               results[k].file = <<ri.peers[q].name>>

\* C4 happens: a subpackage requires a library of a provider with an epoch
\* and carries the explicit Requires, and one that does not got the finding
MissingExplicitWitness ==
    /\ pc = "done"
    /\ \E p \in Peers : \E r \in AfterRules(p) :
           LET req == ri.peers[p].after_deprules[r]
           IN  /\ IsLibRequires(req) /\ ProvidersOf(req) # {}
               /\ ri.peers[Candidate(req)].epoch > 0
               /\ Candidate(req) # p
               /\ CarriesExplicit(p, Candidate(req))
               /\ About("MissingExplicit", p, r) = {}
               /\ Len(ri.peers[p].after_deprules) > 1

-----------------------------------------------------------------------------
(* The epoch prefix *)

\* rule i of peer p uses the version-release without the epoch prefix
LacksEpoch(p, i) ==
    LET h == ri.peers[p]
        rule == h.after_deprules[i]
    IN  /\ h.epoch > 0
        /\ rule.version # NULL
        /\ HasSuffix(rule.version[1], h.version \o <<"-">> \o h.release)
        /\ ~HasPrefix(rule.version[1], FmtJu(h.epoch) \o <<":">>)

\* C5: once the check of a subpackage has returned, exactly its rules whose
\* version is present, ends with the version-release and does not begin
\* with "epoch:" have a 'MissingEpoch' finding, one each, when the epoch is
\* above 0 and none otherwise; the check returned false if and only if
\* there is such a rule.
EpochPrefixFlagged ==
    \A p \in Peers : SecondDone(p) =>
        /\ \A i \in AfterRules(p) :
               Cardinality(About("MissingEpoch", p, i)) = IF LacksEpoch(p, i) THEN 1 ELSE 0
        /\ rets[p].epoch = <<~\E i \in AfterRules(p) : LacksEpoch(p, i)>>

\* C5 happens: a subpackage with an epoch has a rule that was flagged and
\* a rule with the prefix that was not
EpochPrefixWitness ==
    \E p \in Peers :
        /\ SecondDone(p)
        /\ ri.peers[p].epoch > 0
        /\ \E i, j \in AfterRules(p) :
               /\ About("MissingEpoch", p, i) # {}
               /\ About("MissingEpoch", p, j) = {}
               /\ ri.peers[p].after_deprules[j].version = <<Token(ri.peers[p])>>

-----------------------------------------------------------------------------
(* The report of the changes between the builds *)

ClassifierMsgs == {"Gained", "Retained", "Changed", "Lost"}

\* the before and after rules of peer p are the same rules
RulesUnchanged(p) ==
    LET h == ri.peers[p]
    IN  /\ \A i \in AfterRules(p) :
               /\ h.after_deprules[i].peer_deprule # 0
               /\ SameRule(h.after_deprules[i],
                           h.before_deprules[h.after_deprules[i].peer_deprule])
        /\ \A i \in BeforeRules(p) : h.before_deprules[i].peer_deprule # 0

\* C6: once the changes of a subpackage whose before and after rules are
\* the same have been reported, every after-rule of it has exactly one
\* 'Retained' finding, INFO and not waivable, and the subpackage has no
\* 'Gained', 'Changed' or 'Lost' finding and no report finding of VERIFY
\* or BAD severity, in rebase and other builds alike.
UnchangedRulesRetained ==
    \A p \in Peers : ReportDone(p) /\ RulesUnchanged(p) =>
        /\ \A i \in AfterRules(p) :
               /\ Cardinality(About("Retained", p, i)) = 1
               /\ \A k \in About("Retained", p, i) :
                      /\ results[k].severity = "RESULT_INFO"
                      /\ results[k].waiverauth = "NOT_WAIVABLE"
        /\ \A k \in Findings :
               results[k].peer = p /\ results[k].msg \in ClassifierMsgs =>
                   /\ results[k].msg = "Retained"
                   /\ results[k].severity \notin {"RESULT_VERIFY", "RESULT_BAD"}

\* C6 happens: a subpackage of a build that is no rebase has two rules,
\* both as before, and its changes have been reported
UnchangedRulesWitness ==
    \E p \in Peers :
        /\ ReportDone(p) /\ RulesUnchanged(p) /\ ~ri.rebase
        /\ Len(ri.peers[p].after_deprules) = 2
        /\ Len(ri.peers[p].before_deprules) = 2

\* what the peer link of after-rule i of peer p makes of it
LinkKind(p, i) ==
    LET h == ri.peers[p]
        rule == h.after_deprules[i]
    IN  IF rule.peer_deprule = 0 THEN "Gained"
        ELSE IF SameRule(rule, h.before_deprules[rule.peer_deprule]) THEN "Retained"
        ELSE "Changed"

\* C7: with a before build, once the changes of a subpackage have been
\* reported every after-rule of it has exactly one of the findings
\* 'Gained', 'Retained' and 'Changed': 'Gained' without a peer, 'Retained'
\* with an equal peer, 'Changed' with another peer; every before-rule has
\* one 'Lost' finding without a peer and none with one.  Before that, and
\* without a before build, there is no such finding.
ClassifiedByPeerLink ==
    /\ \A p \in Peers : ReportDone(p) =>
           /\ \A i \in AfterRules(p) :
                  /\ Cardinality(About("Gained", p, i) \cup About("Retained", p, i)
                                   \cup About("Changed", p, i)) = 1
                  /\ About(LinkKind(p, i), p, i) # {}
           /\ \A i \in BeforeRules(p) :
                  Cardinality(About("Lost", p, i)) =
                      IF ri.peers[p].before_deprules[i].peer_deprule = 0 THEN 1 ELSE 0
           /\ \A k \in Findings :
                  results[k].peer = p /\ results[k].msg \in ClassifierMsgs =>
                      results[k].rule \in
                          IF results[k].msg = "Lost" THEN BeforeRules(p) ELSE AfterRules(p)
    /\ \A k \in Findings :
           results[k].msg \in ClassifierMsgs => ri.before /\ ReportDone(results[k].peer)

\* C7 happens: the changes of a subpackage with a gained and a lost rule
\* have been reported
ClassifiedWitness ==
    \E p \in Peers :
        /\ ReportDone(p)
        /\ \E i \in AfterRules(p) : About("Gained", p, i) # {}
        /\ \E i \in BeforeRules(p) : About("Lost", p, i) # {}

\* the change of after-rule i of peer p is expected
ChangeExpected(p, i) ==
    LET s == ri.peers[p]
        rule == s.after_deprules[i]
    IN  \/ s.source
        \/ ri.rebase
        \/ \E q \in Peers :
               /\ ~ri.peers[q].source
               /\ ri.peers[q].arch = s.arch
               /\ ri.peers[q].name = BeforeParen(rule.requirement)
               /\ rule.operator = "OP_EQUAL"
               /\ rule.version = <<Token(ri.peers[q])>>

\* C8: a 'Changed' finding is marked expected if and only if its
\* subpackage is a source package, or the build is a rebase, or a
\* subpackage that is no source package has the arch of the subpackage and
\* the name of the rule up to its first "(", and the rule has the operator
\* = and that subpackage's version token as its version.
ExpectedChangeOracle ==
    \A k \in Findings :
        results[k].msg = "Changed" =>
            (results[k].expected <=> ChangeExpected(results[k].peer, results[k].rule))

\* C8 happens: in a build that is no rebase a changed rule T(x) = 1:2.0-1
\* of a binary subpackage was marked expected and a changed rule with >=
\* was not
ExpectedChangeWitness ==
    /\ ~ri.rebase
    /\ \E k, n \in Findings :
           /\ results[k].msg = "Changed" /\ results[k].expected
           /\ ~ri.peers[results[k].peer].source
           /\ HasParen(ri.peers[results[k].peer].after_deprules[results[k].rule].requirement)
           /\ ri.peers[results[k].peer].after_deprules[results[k].rule].version = <<EVR(1)>>
           /\ results[n].msg = "Changed" /\ ~results[n].expected
           /\ ri.peers[results[n].peer].after_deprules[results[n].rule].operator
                  = "OP_GREATEREQUAL"

\* the findings of OK severity
OkFindings == {k \in Findings : results[k].severity = "RESULT_OK"}

\* C9: when inspect_rpmdeps() returns true exactly one finding has OK
\* severity and it is the last finding; when it returns false, and at any
\* time before it returns, no finding has OK severity.
ClosingOkIffVerdict ==
    /\ pc # "done" => OkFindings = {}
    /\ pc = "done" /\ result => OkFindings = {Len(results)} /\ Len(results) > 0
    /\ pc = "done" /\ ~result => OkFindings = {}

\* C9 happens: a run of a build that is no rebase whose findings are a
\* retained rule and an expected change returned true
ClosingOkWitness ==
    /\ pc = "done" /\ result /\ ~ri.rebase
    /\ \E k \in Findings : results[k].msg = "Retained"
    /\ \E k \in Findings : results[k].msg = "Changed" /\ results[k].expected
    /\ ~ri.peers[1].source

\* C10: in a rebase build every 'MissingEpoch', 'Gained', 'Lost' and
\* 'Changed' finding is INFO and not waivable; in another build
\* 'MissingEpoch' is BAD and waivable by anyone, 'Gained' and 'Lost' are
\* VERIFY and waivable by anyone, 'Changed' is INFO, not waivable and
\* marked expected when the change is expected and VERIFY, waivable by
\* anyone and not marked otherwise; whatever was reported before.
SeverityTable ==
    \A k \in Findings :
        LET f == results[k]
            level == <<f.severity, f.waiverauth>>
        IN  /\ f.msg \in {"MissingEpoch", "Gained", "Lost", "Changed"} /\ ri.rebase =>
                level = <<"RESULT_INFO", "NOT_WAIVABLE">>
            /\ f.msg = "MissingEpoch" /\ ~ri.rebase =>
                level = <<"RESULT_BAD", "WAIVABLE_BY_ANYONE">>
            /\ f.msg \in {"Gained", "Lost"} /\ ~ri.rebase =>
                level = <<"RESULT_VERIFY", "WAIVABLE_BY_ANYONE">>
            /\ f.msg = "Changed" /\ ~ri.rebase =>
                IF ChangeExpected(f.peer, f.rule)
                THEN level = <<"RESULT_INFO", "NOT_WAIVABLE">> /\ f.expected
                ELSE level = <<"RESULT_VERIFY", "WAIVABLE_BY_ANYONE">> /\ ~f.expected

\* C10 happens: in a build that is no rebase a rule reported as VERIFY
\* follows a rule of the same subpackage reported as INFO
SeverityWitness ==
    /\ ~ri.rebase
    /\ \E k \in Findings :
           /\ k > 1
           /\ results[k].msg \in {"Gained", "Changed"}
           /\ results[k].severity = "RESULT_VERIFY"
           /\ results[k - 1].msg \in {"Retained", "Changed"}
           /\ results[k - 1].severity = "RESULT_INFO"
           /\ results[k - 1].peer = results[k].peer

-----------------------------------------------------------------------------
(* The order of the findings *)

\* the pass a finding is added in; the closing result comes after them
PassOf(f) ==
    IF f.msg = "Invalid" THEN 1
    ELSE IF f.msg \in {"MissingExplicit", "Multiple", "MissingEpoch"} THEN 2
    ELSE IF f.msg \in ClassifierMsgs THEN 3
    ELSE 4

\* pass 1 before pass 2 before pass 3, the peers in their order in a pass
FindingsInPassOrder ==
    \A k, n \in Findings :
        k < n =>
            /\ PassOf(results[k]) <= PassOf(results[n])
            /\ PassOf(results[k]) = PassOf(results[n]) /\ PassOf(results[k]) < 4 =>
                   results[k].peer <= results[n].peer

\* every rule of every peer that breaks a check has its finding: a version
\* with an unexpanded macro, a version-release without the epoch prefix, a
\* shared library Requires without the explicit Requires of its provider,
\* a shared library Requires with two providing subpackages, and every
\* gained, retained, changed or lost rule when there is a before build
EveryFindingAdded ==
    \A p \in Peers :
        /\ \A i \in AfterRules(p) :
               LET rule == ri.peers[p].after_deprules[i]
               IN  /\ rule.version # NULL /\ OpenThenClose(rule.version[1]) =>
                       About("Invalid", p, i) # {}
                   /\ LacksEpoch(p, i) => About("MissingEpoch", p, i) # {}
                   /\ /\ IsLibRequires(rule) /\ ProvidersOf(rule) # {}
                      /\ ~CarriesExplicit(p, Candidate(rule))
                      => About("MissingExplicit", p, i) # {}
                   /\ /\ IsLibRequires(rule)
                      /\ \E q1, q2 \in ProvidersOf(rule) :
                             ri.peers[q1].name # ri.peers[q2].name
                      => About("Multiple", p, i) # {}
                   /\ ri.before => About(LinkKind(p, i), p, i) # {}
        /\ \A i \in BeforeRules(p) :
               ri.before /\ ri.peers[p].before_deprules[i].peer_deprule = 0 =>
                   About("Lost", p, i) # {}

\* C11: findings are only ever added at the end of the findings; at any
\* time every finding of the first pass precedes every finding of the
\* second, which precede those of the report, with the subpackages in the
\* order of the list within a pass; and when inspect_rpmdeps() returns,
\* every rule of every subpackage that breaks a check has its finding,
\* whatever failed before it.
FindingsAccumulateInOrder ==
    /\ [](FindingsInPassOrder /\ (pc = "done" => EveryFindingAdded))
    /\ [][/\ Len(results) <= Len(results')
          /\ SubSeq(results', 1, Len(results)) = results]_vars

-----------------------------------------------------------------------------
(* The providers of a shared library Requires *)

\* the rules of peer q that are a Provides for req
MatchingProvides(req, q) ==
    {k \in AfterRules(q) : ProvidesFor(req, ri.peers[q].after_deprules[k])}

\* the name of peer q, once for each of its Provides for req
NameForEach(req, q) ==
    [k \in 1..Cardinality(MatchingProvides(req, q)) |-> ri.peers[q].name]

\* C12: a library-prefixed Provides matches a shared library Requires if
\* and only if the subjects are equal, or one of them holds "(" and they
\* are equal up to their first "("; once the check of a subpackage has
\* returned, the providers of each shared library Requires of it hold the
\* name of the first subpackage of the list that has a matching Provides,
\* once for each matching Provides of that subpackage, and nothing else;
\* the providers of every other rule, and of every rule before the check
\* of its subpackage, are empty.
ProvidersOfFirstOnly ==
    \A p \in Peers : \A r \in AfterRules(p) :
        LET req == ri.peers[p].after_deprules[r]
        IN  providers[p][r] =
                IF SecondDone(p) /\ IsLibRequires(req) /\ ProvidersOf(req) # {}
                THEN NameForEach(req, Candidate(req))
                ELSE NULL

\* C12 happens: a shared library Requires has two providing subpackages,
\* the first of them after a subpackage without rules and with two matching
\* Provides, one equal and one equal up to "(", and holds its name twice
ProvidersWitness ==
    /\ pc = "done"
    /\ \E p \in Peers : \E r \in AfterRules(p) :
           LET req == ri.peers[p].after_deprules[r]
           IN  /\ IsLibRequires(req)
               /\ Cardinality(ProvidersOf(req)) >= 2
               /\ LET q == Candidate(req)
                      deps == ri.peers[q].after_deprules
                  IN  /\ \E e \in Peers : e < q /\ AfterRules(e) = {}
                      /\ \E k \in MatchingProvides(req, q) :
                             deps[k].requirement = req.requirement
                      /\ \E k \in MatchingProvides(req, q) :
                             deps[k].requirement # req.requirement
                      /\ providers[p][r] = <<ri.peers[q].name, ri.peers[q].name>>
               /\ \E x \in AfterRules(p) : x # r /\ providers[p][x] = NULL

-----------------------------------------------------------------------------
(* A subpackage that provides the library it requires *)

\* peer p is the first peer of the list with a Provides for req
FirstProvider(req, p) ==
    p \in ProvidersOf(req) /\ \A q \in ProvidersOf(req) : p <= q

\* C13: the skip of the rule that is being checked leaves out no Provides,
\* as a shared library Requires is never a Provides for itself; so once the
\* check of a subpackage S has returned, a shared library Requires of S
\* that S is the first subpackage with a Provides for has S's name in its
\* providers for every matching Provides of S, and has a 'MissingExplicit'
\* finding naming S, with the check and inspect_rpmdeps() returning false,
\* if and only if S carries no 'Requires: S = token' with its own token.
SelfProvidedSelected ==
    \A p \in Peers : \A r \in AfterRules(p) :
        LET req == ri.peers[p].after_deprules[r]
            naming == {k \in About("MissingExplicit", p, r) :
                          results[k].file = <<ri.peers[p].name>>}
        IN  IsLibRequires(req) =>
                /\ r \notin MatchingProvides(req, p)
                /\ SecondDone(p) /\ FirstProvider(req, p) =>
                       /\ providers[p][r] = NameForEach(req, p)
                       /\ Len(providers[p][r]) >= 1
                       /\ naming # {} <=> ~CarriesExplicit(p, p)
                       /\ naming # {} =>
                              /\ rets[p].lib = <<FALSE>>
                              /\ pc = "done" => ~result

\* C13 happens: a subpackage with an epoch provides the library it
\* requires and carries the Requires of itself with its token, so has no
\* finding, and another one that provides the library it requires does not
\* carry it and has the finding naming itself
SelfProvidedWitness ==
    /\ pc = "done" /\ ~result
    /\ \E p \in Peers : \E r \in AfterRules(p) :
           LET req == ri.peers[p].after_deprules[r]
           IN  /\ IsLibRequires(req) /\ FirstProvider(req, p)
               /\ ri.peers[p].epoch > 0
               /\ CarriesExplicit(p, p)
               /\ About("MissingExplicit", p, r) = {}
               /\ providers[p][r] = <<ri.peers[p].name>>
    /\ \E p \in Peers : \E r \in AfterRules(p) :
           LET req == ri.peers[p].after_deprules[r]
           IN  /\ IsLibRequires(req) /\ FirstProvider(req, p)
               /\ ~CarriesExplicit(p, p)
               /\ \E k \in About("MissingExplicit", p, r) :
                      results[k].file = <<ri.peers[p].name>>
               /\ rets[p].lib = <<FALSE>>

=============================================================================
